---- MODULE Spec2Model ----
(***************************************************************************)
(* A model of the Chromecast manager of videojs-remoteplayback: the        *)
(* single-flight guard and the retry-on-playback-start protocol of         *)
(* ChromecastManager.prompt(), the re-emission of the RemotePlayback       *)
(* object's events on the player's bus, and dispose(); and of the plugin    *)
(* around it: the AirPlay manager's availability check, the state          *)
(* accessors and the AirPlay button's visibility.                          *)
(*                                                                         *)
(* The page is single threaded: every action below is one run-to-          *)
(* completion piece of JavaScript (a call up to its first await, or the    *)
(* continuation that runs when a native promise settles, or the listeners  *)
(* an event reaches).  Closures created by different prompt() calls behave *)
(* alike, so the calls awaiting the native prompt, the retry listeners on  *)
(* the bus and the pending native promises are kept as counts.             *)
(***************************************************************************)
EXTENDS Integers, Sequences, FiniteSets, TLC

----------------------------------------------------------------------------
(* Bounds of the model *)

\* prompt() is not called again while this many attempts are under way
MaxPending == 2

\* the page calls isAirPlayAvailable() at most this many times
MaxCalls == 2

\* the browser fires at most this many events on the RemotePlayback object
MaxEvents == 3

\* the control bar holds at most this many children before the plugin adds its own
MaxChildren == 3

(* Program constants *)

\* HTMLMediaElement.HAVE_CURRENT_DATA, the literal 2 of `readyState > 2`
HAVE_CURRENT_DATA == 2

----------------------------------------------------------------------------
VARIABLES
   userAgent,                     \* navigator.userAgent, as a sequence of tokens
   hasRemoteApi,                  \* 'remote' in HTMLVideoElement.prototype
   playerEl,                      \* what player.el() holds
   video,                         \* the media element's playback fields
   remoteState,                   \* RemotePlayback.state
   remoteListeners,               \* listeners registered on the RemotePlayback object
   remotePlayback,                \* ChromecastManager._remotePlayback
   isAwaitingDeviceAvailability,  \* ChromecastManager._isAwaitingDeviceAvailability
   eventListeners,                \* ChromecastManager._eventListeners
   isSetup,                       \* ChromecastManager._isSetup
   disposed,                      \* dispose() has returned
   inflight,                      \* prompt() calls awaiting their native prompt
   busListeners,                  \* handleAvailabilityChange closures on the player's bus
   playPending,                   \* play() promises of the retry path not yet settled
   retryPending,                  \* native prompts re-issued by a retry listener, not yet settled
   last,                          \* what the last step did: the calls it made, how it ended
   hasPickerMethod,               \* 'webkitShowPlaybackTargetPicker' in HTMLVideoElement.prototype
   hasAvailabilityEvent,          \* 'WebKitPlaybackTargetAvailabilityEvent' in window
   hasWirelessProp,               \* 'webkitCurrentPlaybackTargetIsWireless' in a video element
   watchResolves,                 \* RemotePlayback.watchAvailability() resolves in this browser
   hasControlBar,                 \* player.getChild('controlBar') is there
   airPlayRemotePlayback,         \* AirPlayManager._remotePlayback
   webkitAirPlaySupported,        \* AirPlayManager._webkitAirPlaySupported
   airPlayListeners,              \* the AirPlay manager's listeners on the RemotePlayback object
   calls,                         \* isAirPlayAvailable() calls made by the page so far
   awaitingWatch,                 \* of those, the calls awaiting watchAvailability()
   watchCallbacks,                \* callbacks the browser holds for watchAvailability()
   webkitListeners,               \* webkitplaybacktargetavailabilitychanged listeners on the video
   pluginCheck,                   \* where the plugin's _checkAvailability() stands
   returned,                      \* what the call of the last step resolved with
   playerReady,                   \* the player's ready callbacks have run
   button,                        \* the AirPlay button: "none", "shown" or "hidden"
   directListener,                \* the button listens to availabilitychange on the RemotePlayback object
   nativeLog,                     \* the events the browser fired on the RemotePlayback object
   busLog,                        \* the events triggered on the player's bus
   castCalls,                     \* isChromecastAvailable() calls made by the page so far
   castAwaitingWatch,             \* of those, the calls awaiting watchAvailability()
   castWatchCallbacks,            \* callbacks of the Chromecast manager the browser holds
   reportLog,                     \* the watch callbacks the browser invoked, with their values
   children,                      \* the control bar's children, in order
   chromecastButton,              \* the ChromecastButton on the player, once constructed
   airPlayClasses,                \* the connection classes on the AirPlay button's element
   castNotified,                  \* the last notifications the Chromecast button received
   airPlayNotified,               \* the last notifications the AirPlay button received
   pluginDisposed                 \* whether the plugin's dispose() has returned

env     == <<userAgent, hasRemoteApi, playerEl>>
manager == <<remotePlayback, isAwaitingDeviceAvailability, eventListeners, isSetup, disposed>>
pending == <<inflight, busListeners, playPending, retryPending>>
airPlayEnv     == <<hasPickerMethod, hasAvailabilityEvent, hasWirelessProp, watchResolves,
                    hasControlBar>>
airPlayManager == <<airPlayRemotePlayback, webkitAirPlaySupported, airPlayListeners>>
checks         == <<calls, awaitingWatch, watchCallbacks, webkitListeners, pluginCheck, returned>>
controls       == <<playerReady, button, directListener>>
logs           == <<nativeLog, busLog>>
watches        == <<castCalls, castAwaitingWatch, castWatchCallbacks, reportLog>>
widgets        == <<children>>
lifecycle      == <<pluginDisposed>>
buttons        == <<chromecastButton, airPlayClasses, castNotified, airPlayNotified>>
plugin         == <<airPlayEnv, lifecycle, widgets, buttons, watches, airPlayManager, checks, controls, logs>>
cast           == <<video, remoteListeners, manager, pending>>
vars    == <<userAgent, hasRemoteApi, playerEl, video, remoteState, remoteListeners,
             remotePlayback, isAwaitingDeviceAvailability, eventListeners, isSetup,
             disposed, inflight, busListeners, playPending, retryPending, last,
             hasPickerMethod, hasAvailabilityEvent, hasWirelessProp, watchResolves,
             hasControlBar, airPlayRemotePlayback, webkitAirPlaySupported, airPlayListeners,
             calls, awaitingWatch, watchCallbacks, webkitListeners, pluginCheck, returned,
             playerReady, button, directListener, nativeLog, busLog,
             castCalls, castAwaitingWatch, castWatchCallbacks, reportLog, children,
             chromecastButton, airPlayClasses, castNotified, airPlayNotified,
             pluginDisposed>>

----------------------------------------------------------------------------
(* Strings: a message is a sequence of tokens, so that String.includes is  *)
(* a search for a contiguous run of tokens.                                *)

Includes(text, pattern) ==
   \E i \in 1..(Len(text) - Len(pattern) + 1) :
      SubSeq(text, i, i + Len(pattern) - 1) = pattern

ToLowerCase(text) ==
   [i \in 1..Len(text) |->
      CASE text[i] = "Chrome"  -> "chrome"
        [] text[i] = "Edg"     -> "edg"
        [] text[i] = "Mozilla" -> "mozilla"
        [] text[i] = "Safari"  -> "safari"
        [] text[i] = "Firefox" -> "firefox"
        [] OTHER               -> text[i]]

UserAgents ==
   { <<"Mozilla", "Chrome", "Safari">>,
     <<"Mozilla", "Chrome", "Safari", "Edg">>,
     <<"Mozilla", "Firefox">> }

NoError == << >>

\* what the native RemotePlayback.prompt() may reject with
NativeErrors ==
   { <<"No", "remote", "playback", "devices", "found">>,
     <<"NotAllowedError", ":", "User", "denied", "permission">>,
     <<"Operation", "not", "allowed">>,
     <<"Media", "not", "ready">>,
     <<"NotAllowedError", ":", "No", "remote", "playback", "devices", "found">> }

ErrInitFailed  == <<"ChromecastManager initialization failed - video element with Remote Playback support not found">>
ErrNoApi       == <<"Remote Playback API not available">>
ErrNoDevices   == <<"No Chromecast devices found. Make sure your Chromecast is on the same network and try again.">>
ErrPermission  == <<"Chromecast permission denied. Please try clicking the button again.">>

----------------------------------------------------------------------------
(* Capability probes *)

isChromeBrowser ==
   LET ua == ToLowerCase(userAgent)
   IN  Includes(ua, <<"chrome">>) /\ ~Includes(ua, <<"edg">>)

checkClientChromecastSupport == hasRemoteApi /\ isChromeBrowser

\* an element is "none", "div" or "video"; a video element has `remote`
\* exactly when its prototype has
isVideoElementWithCast(el) == el = "video" /\ hasRemoteApi

PlayerEls ==
   { [self |-> "div",   child |-> "none"],
     [self |-> "div",   child |-> "video"],
     [self |-> "video", child |-> "none"] }

getVideoElement ==
   IF isVideoElementWithCast(playerEl.child) THEN "child"
   ELSE IF isVideoElementWithCast(playerEl.self) THEN "self"
   ELSE "null"

----------------------------------------------------------------------------
(* The manager's constructor *)

RemoteEvents == {"connect", "connecting", "disconnect"}

\* the bus event each handler triggers
BusEventOf(handler) ==
   CASE handler = "connectHandler"    -> "CHROMECAST.CONNECTED"
     [] handler = "connectingHandler" -> "CHROMECAST.CONNECTING"
     [] handler = "disconnectHandler" -> "CHROMECAST.DISCONNECTED"

\* RemotePlayback.state after each native event
StateAfter(event) ==
   CASE event = "connect"    -> "connected"
     [] event = "connecting" -> "connecting"
     [] event = "disconnect" -> "disconnected"

\* a set-up that registers no connecting listener
setupEventListenersWithoutConnecting(rp) ==
   IF rp = "null" THEN << >>
   ELSE << [event |-> "connect",    handler |-> "connectHandler"],
           [event |-> "disconnect", handler |-> "disconnectHandler"] >>

setupEventListeners(rp) ==
   IF rp = "null" THEN << >>
   ELSE << [event |-> "connect",    handler |-> "connectHandler"],
           [event |-> "connecting", handler |-> "connectingHandler"],
           [event |-> "disconnect", handler |-> "disconnectHandler"] >>

Range(s) == { s[i] : i \in 1..Len(s) }

\* the fields _initialize leaves behind
initialize ==
   IF getVideoElement = "null"
      THEN [remotePlayback |-> "null", eventListeners |-> << >>, isSetup |-> FALSE]
   ELSE IF checkClientChromecastSupport
      THEN [remotePlayback |-> "remote",
            eventListeners |-> setupEventListeners("remote"),
            isSetup |-> TRUE]
   ELSE [remotePlayback |-> "null", eventListeners |-> << >>, isSetup |-> FALSE]

\* the record of a step: the operation, its argument, how the call it belongs
\* to ended ("pending", "resolved", "rejected", or "returned" for a synchronous
\* step), the error thrown, and the calls and guard writes it made, in order
Step(op, arg, outcome, err, effects) ==
   [op |-> op, arg |-> arg, outcome |-> outcome, err |-> err, effects |-> effects]

\* the class names of the two buttons; video.js hides a component with vjs-hidden
CSS_CLASSES ==
   [CHROMECAST_BUTTON |-> "vjs-chromecast-button",
    CHROMECAST_BUTTON_LARGE |-> "vjs-chromecast-button-lg",
    CHROMECAST_CONNECTED |-> "vjs-chromecast-connected",
    CHROMECAST_CONNECTING |-> "vjs-chromecast-connecting",
    CHROMECAST_CASTING_STATE |-> "vjs-chromecast-casting-state",
    AIRPLAY_CONNECTED |-> "vjs-airplay-connected",
    AIRPLAY_CONNECTING |-> "vjs-airplay-connecting",
    HIDDEN |-> "vjs-hidden"]

\* no ChromecastButton has been constructed on the player
NoChromecastButton ==
   [created |-> FALSE, className |-> {}, isChromecastConnected |-> FALSE, labelEl |-> "none",
    addChromecastLabelToButton |-> FALSE, directListener |-> FALSE]

\* a button that has received no notification
NotNotified == [availability |-> "none", connection |-> "none"]

\* a page that has the Chromecast manager alone: no AirPlay API in the browser
\* and no plugin on the player
NoPlugin ==
   /\ hasPickerMethod = FALSE
   /\ hasAvailabilityEvent = FALSE
   /\ hasWirelessProp = FALSE
   /\ watchResolves = TRUE
   /\ hasControlBar = FALSE
   /\ airPlayRemotePlayback = "null"
   /\ webkitAirPlaySupported = FALSE
   /\ airPlayListeners = {}
   /\ calls = 0
   /\ awaitingWatch = 0
   /\ watchCallbacks = 0
   /\ webkitListeners = 0
   /\ pluginCheck = "none"
   /\ returned = "none"
   /\ playerReady = FALSE
   /\ button = "none"
   /\ directListener = FALSE
   /\ nativeLog = << >>
   /\ busLog = << >>
   /\ castCalls = 0
   /\ castAwaitingWatch = 0
   /\ castWatchCallbacks = 0
   /\ reportLog = << >>
   /\ children = << >>
   /\ chromecastButton = NoChromecastButton
   /\ airPlayClasses = {}
   /\ castNotified = NotNotified
   /\ airPlayNotified = NotNotified
   /\ pluginDisposed = FALSE

\* the ChromecastManager after its constructor
InitCast ==
   /\ userAgent \in UserAgents
   /\ hasRemoteApi \in BOOLEAN
   /\ playerEl \in PlayerEls
   /\ video = [currentTime |-> 0, paused |-> TRUE, ended |-> FALSE, readyState |-> 0]
   /\ remoteState = "disconnected"
   /\ remotePlayback = initialize.remotePlayback
   /\ eventListeners = initialize.eventListeners
   /\ remoteListeners = Range(initialize.eventListeners)
   /\ isSetup = initialize.isSetup
   /\ isAwaitingDeviceAvailability = FALSE
   /\ disposed = FALSE
   /\ inflight = 0
   /\ busListeners = 0
   /\ playPending = 0
   /\ retryPending = 0
   /\ last = Step("new", << >>, "returned", NoError, << >>)

Init == InitCast /\ NoPlugin

----------------------------------------------------------------------------
(* Effects: what a piece of code does, as the sequence of the calls it     *)
(* makes and of its writes to the guard, in program order.                 *)

Count(effects, what) == Cardinality({ i \in 1..Len(effects) : effects[i] = what })

\* the guard after `effects`, when it was g before
GuardAfter(g, effects) ==
   LET writes == { i \in 1..Len(effects) : effects[i] \in {"guard=true", "guard=false"} }
   IN  IF writes = {} THEN g
       ELSE effects[CHOOSE i \in writes : \A j \in writes : j <= i] = "guard=true"

\* the effects of running the same handler n times in a row
RECURSIVE Repeat(_, _)
Repeat(effects, n) == IF n = 0 THEN << >> ELSE effects \o Repeat(effects, n - 1)

----------------------------------------------------------------------------
(* ChromecastManager.prompt() *)

VideoStates ==
   [currentTime : {0, 1}, paused : BOOLEAN, ended : BOOLEAN,
    readyState : {0, HAVE_CURRENT_DATA, HAVE_CURRENT_DATA + 1}]

getState == IF remotePlayback = "null" THEN "null" ELSE remoteState

\* an isConnected() that is true for every state of a held object
isConnectedWheneverHeld == remotePlayback # "null"

isConnected == remotePlayback # "null" /\ remoteState = "connected"

\* a prompt() that does not look at _isSetup
promptEntryWithoutSetupCheck ==
   IF isAwaitingDeviceAvailability THEN "return"
   ELSE IF remotePlayback = "null" THEN "throwNoApi"
   ELSE "callNative"

\* a prompt() whose _isSetup test is inverted
promptEntryInvertedSetupCheck ==
   IF isAwaitingDeviceAvailability THEN "return"
   ELSE IF isSetup THEN "throwInit"
   ELSE IF remotePlayback = "null" THEN "throwNoApi"
   ELSE "callNative"

\* a prompt() that does not look at the guard
promptEntryWithoutGuard ==
   IF ~isSetup THEN "throwInit"
   ELSE IF remotePlayback = "null" THEN "throwNoApi"
   ELSE "callNative"

\* prompt() up to its first await: where the call goes
promptEntry ==
   IF isAwaitingDeviceAvailability THEN "return"
   ELSE IF ~isSetup THEN "throwInit"
   ELSE IF remotePlayback = "null" THEN "throwNoApi"
   ELSE "callNative"

isPlaying ==
   /\ video.currentTime > 0
   /\ ~video.paused
   /\ ~video.ended
   /\ video.readyState > HAVE_CURRENT_DATA

\* a catch block that does not know the device-not-found message
promptCatchWithoutNoDevices(errorMessage) ==
   IF \/ Includes(errorMessage, <<"NotAllowedError">>)
      \/ Includes(errorMessage, <<"not", "allowed">>)
      THEN "throwPermission"
   ELSE IF getVideoElement = "null" THEN "rethrow"
   ELSE IF isPlaying \/ isConnected THEN "rethrow"
   ELSE "retry"

\* a catch block that does not know the permission messages
promptCatchWithoutPermission(errorMessage) ==
   IF Includes(errorMessage, <<"No", "remote", "playback", "devices", "found">>)
      THEN "throwNoDevices"
   ELSE IF getVideoElement = "null" THEN "rethrow"
   ELSE IF isPlaying \/ isConnected THEN "rethrow"
   ELSE "retry"

\* a catch block that retries whatever the media is doing
promptCatchAlwaysRetries(errorMessage) ==
   IF Includes(errorMessage, <<"No", "remote", "playback", "devices", "found">>)
      THEN "throwNoDevices"
   ELSE IF \/ Includes(errorMessage, <<"NotAllowedError">>)
           \/ Includes(errorMessage, <<"not", "allowed">>)
      THEN "throwPermission"
   ELSE IF getVideoElement = "null" THEN "rethrow"
   ELSE "retry"

\* the catch block of prompt(): where a native rejection with errorMessage goes
promptCatch(errorMessage) ==
   IF Includes(errorMessage, <<"No", "remote", "playback", "devices", "found">>)
      THEN "throwNoDevices"
   ELSE IF \/ Includes(errorMessage, <<"NotAllowedError">>)
           \/ Includes(errorMessage, <<"not", "allowed">>)
      THEN "throwPermission"
   ELSE IF getVideoElement = "null" THEN "rethrow"
   ELSE IF isPlaying \/ isConnected THEN "rethrow"
   ELSE "retry"

\* a retry path that registers no listener
retryPathWithoutListener == <<"guard=true", "video.play">>

\* the retry path: the guard, the one-shot listener, then play()
retryPath == <<"guard=true", "player.on", "video.play">>

\* a listener that stays registered after it ran
handleAvailabilityChangeStaysRegistered(available) ==
   <<"guard=false">>
      \o (IF remotePlayback # "null" THEN <<"remote.prompt">> ELSE << >>)

\* a listener that waits for a device to be reported available
handleAvailabilityChangeWhenAvailable(available) ==
   IF available
      THEN <<"guard=false", "player.off">>
              \o (IF remotePlayback # "null" THEN <<"remote.prompt">> ELSE << >>)
      ELSE << >>

\* a listener that issues the native prompt twice
handleAvailabilityChangePromptsTwice(available) ==
   <<"guard=false", "player.off">>
      \o (IF remotePlayback # "null" THEN <<"remote.prompt", "remote.prompt">> ELSE << >>)

\* the listener the retry path registers on the player's bus; the bus hands it
\* the event's payload, which it does not read
handleAvailabilityChange(available) ==
   <<"guard=false", "player.off">>
      \o (IF remotePlayback # "null" THEN <<"remote.prompt">> ELSE << >>)

\* a catch of play() that only logs
playCatchOnlyLogs == << >>

\* the catch of play()
playCatch == <<"guard=false">>

\* prompt() is called
PromptCall ==
   /\ \/ promptEntry # "callNative"
      \/ /\ inflight + busListeners + retryPending < MaxPending
         /\ inflight + playPending < MaxPending
   /\ inflight' = IF promptEntry = "callNative" THEN inflight + 1 ELSE inflight
   /\ last' = CASE promptEntry = "return" ->
                      Step("prompt", << >>, "resolved", NoError, << >>)
                [] promptEntry = "throwInit" ->
                      Step("prompt", << >>, "rejected", ErrInitFailed, << >>)
                [] promptEntry = "throwNoApi" ->
                      Step("prompt", << >>, "rejected", ErrNoApi, << >>)
                [] promptEntry = "callNative" ->
                      Step("prompt", << >>, "pending", NoError, <<"remote.prompt">>)
   /\ UNCHANGED <<env, plugin, video, remoteState, remoteListeners, manager,
                  busListeners, playPending, retryPending>>

\* the native prompt of a prompt() call resolves
PromptResolved ==
   /\ inflight > 0
   /\ inflight' = inflight - 1
   /\ last' = Step("promptResolved", << >>, "resolved", NoError, << >>)
   /\ UNCHANGED <<env, plugin, video, remoteState, remoteListeners, manager,
                  busListeners, playPending, retryPending>>

\* the native prompt of a prompt() call rejects with errorMessage
PromptRejected(errorMessage) ==
   LET branch  == promptCatch(errorMessage)
       effects == IF branch = "retry" THEN retryPath ELSE << >>
   IN  /\ inflight > 0
       /\ inflight' = inflight - 1
       /\ isAwaitingDeviceAvailability' = GuardAfter(isAwaitingDeviceAvailability, effects)
       /\ busListeners' = busListeners + Count(effects, "player.on")
       /\ playPending' = playPending + Count(effects, "video.play")
       /\ last' = CASE branch = "throwNoDevices" ->
                          Step("promptRejected", errorMessage, "rejected", ErrNoDevices, effects)
                    [] branch = "throwPermission" ->
                          Step("promptRejected", errorMessage, "rejected", ErrPermission, effects)
                    [] branch = "rethrow" ->
                          Step("promptRejected", errorMessage, "rejected", errorMessage, effects)
                    [] branch = "retry" ->
                          Step("promptRejected", errorMessage, "resolved", NoError, effects)
       /\ UNCHANGED <<env, plugin, video, remoteState, remoteListeners, remotePlayback,
                      eventListeners, isSetup, disposed, retryPending>>

\* a Chromecast availability-change event is triggered on the player's bus:
\* every retry listener registered there runs
AvailabilityChange(available) ==
   LET each    == <<"handleAvailabilityChange">> \o handleAvailabilityChange(available)
       effects == Repeat(each, busListeners)
   IN  /\ retryPending + busListeners <= MaxPending
       /\ isAwaitingDeviceAvailability' = GuardAfter(isAwaitingDeviceAvailability, effects)
       /\ busListeners' = busListeners - Count(effects, "player.off")
       /\ retryPending' = retryPending + Count(effects, "remote.prompt")
       /\ last' = Step("availabilitychange",
                       <<"available", IF available THEN "true" ELSE "false">>,
                       "returned", NoError, effects)
       /\ UNCHANGED <<env, plugin, video, remoteState, remoteListeners, remotePlayback,
                      eventListeners, isSetup, disposed, inflight, playPending>>

\* a native prompt re-issued by a retry listener settles; a rejection is logged
RetrySettled(ok) ==
   /\ retryPending > 0
   /\ retryPending' = retryPending - 1
   /\ last' = Step("retrySettled", <<IF ok THEN "resolved" ELSE "rejected">>,
                   "returned", NoError, << >>)
   /\ UNCHANGED <<env, plugin, video, remoteState, remoteListeners, manager,
                  inflight, busListeners, playPending>>

\* the play() of a retry path resolves
PlayResolved ==
   /\ playPending > 0
   /\ playPending' = playPending - 1
   /\ last' = Step("playResolved", << >>, "returned", NoError, << >>)
   /\ UNCHANGED <<env, plugin, video, remoteState, remoteListeners, manager,
                  inflight, busListeners, retryPending>>

\* the play() of a retry path rejects
PlayRejected ==
   /\ playPending > 0
   /\ playPending' = playPending - 1
   /\ isAwaitingDeviceAvailability' = GuardAfter(isAwaitingDeviceAvailability, playCatch)
   /\ last' = Step("playRejected", << >>, "returned", NoError, playCatch)
   /\ UNCHANGED <<env, plugin, video, remoteState, remoteListeners, remotePlayback,
                  eventListeners, isSetup, disposed, inflight, busListeners, retryPending>>

----------------------------------------------------------------------------
(* ChromecastManager.dispose() *)

\* a dispose() that forgets the listeners on the RemotePlayback object
disposeKeepsListeners ==
   [removed        |-> {},
    eventListeners |-> << >>,
    remotePlayback |-> "null",
    isSetup        |-> FALSE,
    isAwaitingDeviceAvailability |-> FALSE]

\* what dispose() removes from the RemotePlayback object and leaves in the fields
dispose ==
   [removed        |-> IF remotePlayback # "null" THEN Range(eventListeners) ELSE {},
    eventListeners |-> IF remotePlayback # "null" THEN << >> ELSE eventListeners,
    remotePlayback |-> "null",
    isSetup        |-> FALSE,
    isAwaitingDeviceAvailability |-> FALSE]

Dispose ==
   /\ remoteListeners' = remoteListeners \ dispose.removed
   /\ eventListeners' = dispose.eventListeners
   /\ remotePlayback' = dispose.remotePlayback
   /\ isSetup' = dispose.isSetup
   /\ isAwaitingDeviceAvailability' = dispose.isAwaitingDeviceAvailability
   /\ disposed' = TRUE
   /\ last' = Step("dispose", << >>, "returned", NoError, << >>)
   /\ UNCHANGED <<env, plugin, video, remoteState, pending>>

----------------------------------------------------------------------------
(* The environment: the RemotePlayback object and the media element *)

\* the calls the listeners registered for a native event make, in order
RECURSIVE Dispatch(_, _)
Dispatch(event, listeners) ==
   IF listeners = << >> THEN << >>
   ELSE (IF Head(listeners) \in remoteListeners /\ Head(listeners).event = event
            THEN <<"player.trigger " \o BusEventOf(Head(listeners).handler)>>
            ELSE << >>)
        \o Dispatch(event, Tail(listeners))

\* the browser fires connect, connecting or disconnect on the RemotePlayback object
RemoteEvent(event) ==
   /\ remoteState' = StateAfter(event)
   /\ last' = Step("remoteEvent", <<event>>, "returned", NoError,
                   Dispatch(event, setupEventListeners("remote")))
   /\ UNCHANGED <<env, plugin, video, remoteListeners, manager, pending>>

\* the media element's playback fields change
MediaChange(v) ==
   /\ v # video
   /\ video' = v
   /\ last' = Step("mediaChange", << >>, "returned", NoError, << >>)
   /\ UNCHANGED <<env, plugin, remoteState, remoteListeners, manager, pending>>

----------------------------------------------------------------------------
Next ==
   \/ PromptCall
   \/ PromptResolved
   \/ \E m \in NativeErrors : PromptRejected(m)
   \/ \E a \in BOOLEAN : AvailabilityChange(a)
   \/ \E ok \in BOOLEAN : RetrySettled(ok)
   \/ PlayResolved
   \/ PlayRejected
   \/ Dispose
   \/ \E e \in RemoteEvents : RemoteEvent(e)
   \/ \E v \in VideoStates : MediaChange(v)

Spec == Init /\ [][Next]_vars

----------------------------------------------------------------------------
(* The plugin: the AirPlay manager, the availability check and the AirPlay *)
(* button, on the same player and media element.                           *)

checkClientAirPlaySupport == hasPickerMethod \/ hasAvailabilityEvent

checkClientRemotePlaybackSupport == hasRemoteApi

\* a video element has the picker method exactly when its prototype has
isVideoElementWithAirPlay(el) ==
   el = "video" /\ hasPickerMethod /\ hasWirelessProp /\ hasRemoteApi

getAirPlayVideoElement ==
   IF isVideoElementWithAirPlay(playerEl.child) THEN "child" ELSE "null"

\* the bus event each of the AirPlay manager's listeners triggers
AirPlayEventOf(event) ==
   CASE event = "connect"    -> "AIRPLAY.CONNECTED"
     [] event = "connecting" -> "AIRPLAY.CONNECTING"
     [] event = "disconnect" -> "AIRPLAY.DISCONNECTED"

airPlaySetupEventListeners(rp) == IF rp = "null" THEN {} ELSE RemoteEvents

\* the fields AirPlayManager._initialize leaves behind
airPlayInitialize ==
   IF getAirPlayVideoElement = "null"
      THEN [remotePlayback |-> "null", webkitAirPlaySupported |-> FALSE, listeners |-> {}]
   ELSE IF checkClientAirPlaySupport
      THEN [remotePlayback |-> "remote", webkitAirPlaySupported |-> TRUE,
            listeners |-> airPlaySetupEventListeners("remote")]
   ELSE [remotePlayback |-> "null", webkitAirPlaySupported |-> FALSE,
         listeners |-> airPlaySetupEventListeners("null")]

airPlayGetState == IF airPlayRemotePlayback = "null" THEN "null" ELSE remoteState

airPlayIsConnected == airPlayRemotePlayback # "null" /\ remoteState = "connected"

pluginGetState == airPlayGetState

pluginIsConnected == airPlayIsConnected

\* _checkWebKitAirPlayAvailability: "listen" adds a listener and returns true
checkWebKitAirPlayAvailability(videoElement) ==
   IF videoElement = "null" THEN "false" ELSE "listen"

\* a fallback that gives up without trying the WebKit path
isAirPlayAvailableFallbackGivesUp(webkit, videoElement) == "false"

\* isAirPlayAvailable() after the watch was skipped or has failed
isAirPlayAvailableFallback(webkit, videoElement) ==
   IF webkit THEN checkWebKitAirPlayAvailability(videoElement) ELSE "false"

\* isAirPlayAvailable() up to its await: "watch" calls watchAvailability()
isAirPlayAvailable(support, rp, webkit, videoElement) ==
   IF ~support THEN "false"
   ELSE IF rp # "null" THEN "watch"
   ELSE isAirPlayAvailableFallback(webkit, videoElement)

\* a continuation that takes a resolved watch for an unavailable one
isAirPlayAvailableAfterWatchUnavailable(resolved) ==
   IF resolved THEN "false"
   ELSE isAirPlayAvailableFallback(webkitAirPlaySupported, getAirPlayVideoElement)

\* isAirPlayAvailable() after watchAvailability() has settled
isAirPlayAvailableAfterWatch(resolved) ==
   IF resolved THEN "true"
   ELSE isAirPlayAvailableFallback(webkitAirPlaySupported, getAirPlayVideoElement)

\* what a call that ended in branch r resolves with
Resolution(r) == IF r = "false" THEN "false" ELSE "true"

\* the calls a step that ended in branch r made
CallsOf(r) ==
   CASE r = "watch"  -> <<"remote.watchAvailability">>
     [] r = "listen" -> <<"video.addEventListener webkitplaybacktargetavailabilitychanged">>
     [] OTHER        -> << >>

\* a button that is left visible whatever the browser supports
airPlayButtonInitializeLeftVisible ==
   [hidden |-> FALSE,
    directListener |-> /\ getVideoElement # "null"
                       /\ checkClientAirPlaySupport
                       /\ checkClientRemotePlaybackSupport]

\* what AirPlayButton._initialize leaves behind
airPlayButtonInitialize ==
   [hidden |-> ~checkClientAirPlaySupport,
    directListener |-> /\ getVideoElement # "null"
                       /\ checkClientAirPlaySupport
                       /\ checkClientRemotePlaybackSupport]

\* the names of the components involved in placing the button
COMPONENT_NAMES ==
   [AIRPLAY_BUTTON |-> "AirPlayButton", FULLSCREEN_TOGGLE |-> "fullscreenToggle",
    CONTROL_BAR |-> "controlBar"]

\* the components a control bar may hold before the plugin adds its button
ChildNames == {"playToggle", "volumePanel", "progressControl", COMPONENT_NAMES.FULLSCREEN_TOGGLE}

\* the control bars the player may come with: each component at most once
ControlBars ==
   {c \in UNION {[1..n -> ChildNames] : n \in 0..MaxChildren} :
       \A i, j \in DOMAIN c : c[i] = c[j] => i = j}

\* the control bar of a player that was given no other layout
DefaultControlBar == <<"playToggle", "progressControl", COMPONENT_NAMES.FULLSCREEN_TOGGLE>>

\* Array.prototype.indexOf: the index of the first occurrence counted from 0, or -1
indexOf(array, element) ==
   IF \E i \in DOMAIN array : array[i] = element
   THEN (CHOOSE i \in DOMAIN array :
            /\ array[i] = element
            /\ \A j \in DOMAIN array : array[j] = element => i <= j) - 1
   ELSE -1

\* controlBar.getChild(name): whether the control bar holds that component
getChild(controlBar, name) == \E i \in DOMAIN controlBar : controlBar[i] = name

\* a control bar that places a new child one position too late
addChildAfterIndex(controlBar, child, index) ==
   IF index + 1 >= Len(controlBar) THEN Append(controlBar, child)
   ELSE SubSeq(controlBar, 1, index + 1) \o <<child>>
        \o SubSeq(controlBar, index + 2, Len(controlBar))

\* controlBar.addChild(child, {}, index): the child takes that index, counted from 0,
\* and the children from there on move up by one
addChild(controlBar, child, index) ==
   SubSeq(controlBar, 1, index) \o <<child>> \o SubSeq(controlBar, index + 1, Len(controlBar))

\* the control bar after _addButtonToControlBar has placed the button
addButtonToControlBar(controlBar) ==
   IF getChild(controlBar, COMPONENT_NAMES.FULLSCREEN_TOGGLE)
   THEN LET fullscreenToggleIndex == indexOf(controlBar, COMPONENT_NAMES.FULLSCREEN_TOGGLE)
            insertIndex == IF fullscreenToggleIndex >= 0 THEN fullscreenToggleIndex
                           ELSE Len(controlBar)
        IN  addChild(controlBar, COMPONENT_NAMES.AIRPLAY_BUTTON, insertIndex)
   ELSE Append(controlBar, COMPONENT_NAMES.AIRPLAY_BUTTON)

\* the player after the plugin's constructor, with a ChromecastManager on it and the
\* control bar still to be chosen
InitPlugin ==
   /\ InitCast
   /\ hasPickerMethod \in BOOLEAN
   /\ hasAvailabilityEvent \in BOOLEAN
   /\ hasWirelessProp \in BOOLEAN
   /\ watchResolves \in BOOLEAN
   /\ hasControlBar \in BOOLEAN
   /\ airPlayRemotePlayback = airPlayInitialize.remotePlayback
   /\ webkitAirPlaySupported = airPlayInitialize.webkitAirPlaySupported
   /\ airPlayListeners = airPlayInitialize.listeners
   /\ calls = 0
   /\ awaitingWatch = 0
   /\ watchCallbacks = 0
   /\ LET r == isAirPlayAvailable(checkClientAirPlaySupport, airPlayInitialize.remotePlayback,
                                  airPlayInitialize.webkitAirPlaySupported,
                                  getAirPlayVideoElement)
      IN  /\ webkitListeners = IF r = "listen" THEN 1 ELSE 0
          /\ pluginCheck = IF r = "watch" THEN "awaitingWatch" ELSE Resolution(r)
   /\ returned = "none"
   /\ playerReady = FALSE
   /\ button = "none"
   /\ directListener = FALSE
   /\ nativeLog = << >>
   /\ busLog = << >>
   /\ castCalls = 0
   /\ castAwaitingWatch = 0
   /\ castWatchCallbacks = 0
   /\ reportLog = << >>
   /\ chromecastButton = NoChromecastButton
   /\ airPlayClasses = {}
   /\ castNotified = NotNotified
   /\ airPlayNotified = NotNotified
   /\ pluginDisposed = FALSE

\* the player after the plugin's constructor, with the usual control bar if it has one
InitPlayer ==
   /\ InitPlugin
   /\ children = IF hasControlBar THEN DefaultControlBar ELSE << >>

\* the player after the plugin's constructor, with any control bar
InitControlBar ==
   /\ InitPlugin
   /\ children \in IF hasControlBar THEN ControlBars ELSE {<< >>}

\* the page calls isAirPlayAvailable() on the plugin's manager
IsAirPlayAvailableCall ==
   /\ calls < MaxCalls
   /\ calls' = calls + 1
   /\ LET r == isAirPlayAvailable(checkClientAirPlaySupport, airPlayRemotePlayback,
                                  webkitAirPlaySupported, getAirPlayVideoElement)
      IN  /\ awaitingWatch' = IF r = "watch" THEN awaitingWatch + 1 ELSE awaitingWatch
          /\ webkitListeners' = IF r = "listen" THEN webkitListeners + 1 ELSE webkitListeners
          /\ returned' = IF r = "watch" THEN "none" ELSE Resolution(r)
          /\ last' = Step("isAirPlayAvailable", << >>,
                          IF r = "watch" THEN "pending" ELSE "resolved", NoError, CallsOf(r))
   /\ UNCHANGED <<env, remoteState, cast, airPlayEnv, lifecycle, widgets, buttons, watches, airPlayManager, watchCallbacks,
                  pluginCheck, controls, logs>>

\* watchAvailability() settles for a call of the page
WatchSettled ==
   /\ awaitingWatch > 0
   /\ awaitingWatch' = awaitingWatch - 1
   /\ LET r == isAirPlayAvailableAfterWatch(watchResolves)
      IN  /\ watchCallbacks' = IF watchResolves THEN watchCallbacks + 1 ELSE watchCallbacks
          /\ webkitListeners' = IF r = "listen" THEN webkitListeners + 1 ELSE webkitListeners
          /\ returned' = Resolution(r)
          /\ last' = Step("watchSettled", << >>, "resolved", NoError, CallsOf(r))
   /\ UNCHANGED <<env, remoteState, cast, airPlayEnv, lifecycle, widgets, buttons, watches, airPlayManager, calls,
                  pluginCheck, controls, logs>>

\* watchAvailability() settles for the call of the plugin's _checkAvailability()
PluginWatchSettled ==
   /\ pluginCheck = "awaitingWatch"
   /\ LET r == isAirPlayAvailableAfterWatch(watchResolves)
      IN  /\ watchCallbacks' = IF watchResolves THEN watchCallbacks + 1 ELSE watchCallbacks
          /\ webkitListeners' = IF r = "listen" THEN webkitListeners + 1 ELSE webkitListeners
          /\ pluginCheck' = Resolution(r)
          /\ returned' = Resolution(r)
          /\ last' = Step("pluginWatchSettled", << >>, "resolved", NoError, CallsOf(r))
   /\ UNCHANGED <<env, remoteState, cast, airPlayEnv, lifecycle, widgets, buttons, watches, airPlayManager, calls,
                  awaitingWatch, controls, logs>>

(* The buttons *)

\* ChromecastButton.buildCSSClass(): the element's classes, built anew
buildCSSClass(b) ==
   {CSS_CLASSES.CHROMECAST_BUTTON, "vjs-control", "vjs-button"}
      \cup (IF b.isChromecastConnected THEN {CSS_CLASSES.CHROMECAST_CASTING_STATE} ELSE {})
      \cup (IF b.addChromecastLabelToButton THEN {CSS_CLASSES.CHROMECAST_BUTTON_LARGE} ELSE {})

\* _reloadCSSClasses(): el.className = this.buildCSSClass()
reloadCSSClasses(b) == [b EXCEPT !.className = buildCSSClass(b)]

\* _updateCastLabelText()
updateCastLabelText(b) ==
   IF b.labelEl = "none" THEN b
   ELSE [b EXCEPT !.labelEl = IF b.isChromecastConnected THEN "Disconnect Cast" ELSE "Cast"]

\* _updateChromecastState(isConnected)
updateChromecastState(b, connectedNow) ==
   updateCastLabelText(reloadCSSClasses([b EXCEPT !.isChromecastConnected = connectedNow]))

onChromecastConnected(b) == updateChromecastState(b, TRUE)

onChromecastDisconnected(b) == updateChromecastState(b, FALSE)

onChromecastConnecting(b) == reloadCSSClasses([b EXCEPT !.isChromecastConnected = FALSE])

\* Component.show() and Component.hide() on a set of class names
show(className) == className \ {CSS_CLASSES.HIDDEN}

hide(className) == className \cup {CSS_CLASSES.HIDDEN}

\* state listeners that leave the other connection class in place
setupStateEventListenersAddingOnly(className, event, connecting, connected) ==
   CASE event = "connecting"   -> className \cup {connecting}
     [] event = "connected"    -> className \cup {connected}
     [] event = "disconnected" -> className \ {connecting, connected}
     [] OTHER                  -> className

\* the listeners of _setupStateEventListeners, which both buttons register with
\* their own class names
setupStateEventListeners(className, event, connecting, connected) ==
   CASE event = "connecting"   -> (className \ {connected}) \cup {connecting}
     [] event = "connected"    -> (className \ {connecting}) \cup {connected}
     [] event = "disconnected" -> className \ {connecting, connected}
     [] OTHER                  -> className

\* the connection notification a trigger call carries to a button, if any
ConnectionOf(trigger, prefix) ==
   CASE trigger = "player.trigger " \o prefix \o ".CONNECTING"   -> "connecting"
     [] trigger = "player.trigger " \o prefix \o ".CONNECTED"    -> "connected"
     [] trigger = "player.trigger " \o prefix \o ".DISCONNECTED" -> "disconnected"
     [] OTHER                                                     -> "none"

\* the availability notification a trigger call carries to a button, if any
AvailabilityOf(trigger) ==
   CASE trigger = "player.trigger REMOTE_PLAYBACK.AVAILABLE"   -> "available"
     [] trigger = "player.trigger REMOTE_PLAYBACK.UNAVAILABLE" -> "unavailable"
     [] OTHER                                                  -> "none"

\* the ChromecastButton after the player's bus has run its listeners for a trigger call:
\* the constructor's three listeners come first, then those of _initializeButton
chromecastButtonOn(b, trigger) ==
   IF ~b.created THEN b
   ELSE LET connection == ConnectionOf(trigger, "CHROMECAST")
            first == CASE connection = "connected"    -> onChromecastConnected(b)
                       [] connection = "disconnected" -> onChromecastDisconnected(b)
                       [] connection = "connecting"   -> onChromecastConnecting(b)
                       [] OTHER                       -> b
            seen == CASE AvailabilityOf(trigger) = "available"   -> show(first.className)
                      [] AvailabilityOf(trigger) = "unavailable" -> hide(first.className)
                      [] OTHER                                    -> first.className
        IN  [first EXCEPT !.className =
                setupStateEventListeners(seen, connection, CSS_CLASSES.CHROMECAST_CONNECTING,
                                         CSS_CLASSES.CHROMECAST_CONNECTED)]

\* the ChromecastButton's direct listener for an availabilitychange event
chromecastOnAvailabilityChange(b, availability) ==
   IF ~b.directListener THEN b
   ELSE [b EXCEPT !.className = IF availability = "available" THEN show(b.className)
                                ELSE hide(b.className)]

\* the connection classes of the AirPlay button after a trigger call
airPlayButtonOn(className, trigger) ==
   IF button = "none" THEN className
   ELSE setupStateEventListeners(className, ConnectionOf(trigger, "AIRPLAY"),
                                 CSS_CLASSES.AIRPLAY_CONNECTING, CSS_CLASSES.AIRPLAY_CONNECTED)

\* what a button remembers of the notifications a trigger call carries to it
NotifiedOn(notified, trigger, prefix) ==
   [availability |-> IF AvailabilityOf(trigger) # "none" THEN AvailabilityOf(trigger)
                     ELSE notified.availability,
    connection   |-> IF ConnectionOf(trigger, prefix) # "none"
                        THEN ConnectionOf(trigger, prefix)
                     ELSE notified.connection]

RECURSIVE chromecastButtonAfter(_, _)
\* the ChromecastButton after a sequence of trigger calls
chromecastButtonAfter(b, triggers) ==
   IF triggers = << >> THEN b
   ELSE chromecastButtonAfter(chromecastButtonOn(b, Head(triggers)), Tail(triggers))

RECURSIVE airPlayButtonAfter(_, _)
\* the AirPlay button's connection classes after a sequence of trigger calls
airPlayButtonAfter(className, triggers) ==
   IF triggers = << >> THEN className
   ELSE airPlayButtonAfter(airPlayButtonOn(className, Head(triggers)),
                           Tail(triggers))

RECURSIVE NotifiedAfter(_, _, _)
\* what a button remembers after a sequence of trigger calls
NotifiedAfter(notified, triggers, prefix) ==
   IF triggers = << >> THEN notified
   ELSE NotifiedAfter(NotifiedOn(notified, Head(triggers), prefix),
                      Tail(triggers), prefix)

\* the ChromecastButton after its constructor
chromecastButtonInitialize(addChromecastLabelToButton) ==
   LET made == [NoChromecastButton EXCEPT
                   !.created = TRUE,
                   !.addChromecastLabelToButton = addChromecastLabelToButton]
       shown == reloadCSSClasses(made)
       el == IF checkClientChromecastSupport THEN shown
             ELSE [shown EXCEPT !.className = hide(shown.className)]
       labelled == IF addChromecastLabelToButton
                      THEN updateCastLabelText([el EXCEPT !.labelEl = ""])
                   ELSE el
   IN  [labelled EXCEPT !.directListener = /\ getVideoElement # "null"
                                           /\ checkClientChromecastSupport]

\* the page adds a ChromecastButton to the player
ChromecastButtonCreated(addChromecastLabelToButton) ==
   /\ ~chromecastButton.created
   /\ chromecastButton' = chromecastButtonInitialize(addChromecastLabelToButton)
   /\ returned' = "none"
   /\ last' = Step("chromecastButton", <<addChromecastLabelToButton>>, "returned", NoError, << >>)
   /\ UNCHANGED <<env, remoteState, cast, airPlayEnv, lifecycle, widgets, airPlayClasses, castNotified,
                  airPlayNotified, watches, airPlayManager, calls, awaitingWatch,
                  watchCallbacks, webkitListeners, pluginCheck, controls, logs>>

\* a check that announces availability whatever the result
checkAvailabilityAlwaysAvailable(available) == "REMOTE_PLAYBACK.AVAILABLE"

\* the event _checkAvailability() triggers for a result
checkAvailability(available) ==
   IF available = "true" THEN "REMOTE_PLAYBACK.AVAILABLE" ELSE "REMOTE_PLAYBACK.UNAVAILABLE"

\* the button after an availability event on the bus
onAvailability(event) ==
   IF button = "none" THEN "none"
   ELSE IF event = "REMOTE_PLAYBACK.AVAILABLE" THEN "shown" ELSE "hidden"

\* _checkAvailability() continues after its await and triggers its event
PluginCheckEmits ==
   /\ pluginCheck \in {"true", "false"}
   /\ pluginCheck' = IF pluginCheck = "true" THEN "emittedAvailable" ELSE "emittedUnavailable"
   /\ button' = onAvailability(checkAvailability(pluginCheck))
   /\ busLog' = Append(busLog, "player.trigger " \o checkAvailability(pluginCheck))
   /\ LET triggers == <<"player.trigger " \o checkAvailability(pluginCheck)>>
      IN  /\ chromecastButton' = chromecastButtonAfter(chromecastButton, triggers)
          /\ castNotified' = IF chromecastButton.created
                                THEN NotifiedAfter(castNotified, triggers, "CHROMECAST")
                             ELSE castNotified
          /\ airPlayNotified' = IF button # "none"
                                   THEN NotifiedAfter(airPlayNotified, triggers, "AIRPLAY")
                                ELSE airPlayNotified
   /\ returned' = "none"
   /\ last' = Step("checkAvailability", << >>, "resolved", NoError,
                   <<"player.trigger " \o checkAvailability(pluginCheck)>>)
   /\ UNCHANGED <<env, remoteState, cast, airPlayEnv, lifecycle, widgets, airPlayClasses, watches,
                  airPlayManager, calls, awaitingWatch, watchCallbacks, webkitListeners,
                  playerReady, directListener, nativeLog>>

\* the player becomes ready: _addButtonToControlBar()
PlayerReady ==
   /\ ~playerReady
   /\ playerReady' = TRUE
   /\ button' = IF ~hasControlBar THEN "none"
                ELSE IF airPlayButtonInitialize.hidden THEN "hidden" ELSE "shown"
   /\ directListener' = (hasControlBar /\ airPlayButtonInitialize.directListener)
   /\ children' = IF hasControlBar THEN addButtonToControlBar(children) ELSE children
   /\ returned' = "none"
   /\ last' = Step("ready", << >>, "returned", NoError, << >>)
   /\ UNCHANGED <<env, remoteState, cast, airPlayEnv, lifecycle, buttons, watches, airPlayManager, calls,
                  awaitingWatch, watchCallbacks, webkitListeners, pluginCheck, logs>>

\* the button's onAvailabilityChange for an availabilitychange event
onAvailabilityChange(availability) ==
   IF availability = "available" THEN "shown" ELSE "hidden"

\* the browser fires availabilitychange on the RemotePlayback object
NativeAvailabilityChange(availability) ==
   /\ hasRemoteApi
   /\ button' = IF directListener THEN onAvailabilityChange(availability) ELSE button
   /\ chromecastButton' = chromecastOnAvailabilityChange(chromecastButton, availability)
   /\ castNotified' = IF chromecastButton.directListener
                         THEN [castNotified EXCEPT !.availability = availability]
                      ELSE castNotified
   /\ airPlayNotified' = IF directListener
                            THEN [airPlayNotified EXCEPT !.availability = availability]
                         ELSE airPlayNotified
   /\ returned' = "none"
   /\ last' = Step("nativeAvailabilityChange", <<availability>>, "returned", NoError, << >>)
   /\ UNCHANGED <<env, remoteState, cast, airPlayEnv, lifecycle, widgets, airPlayClasses, watches,
                  airPlayManager, calls, awaitingWatch, watchCallbacks, webkitListeners,
                  pluginCheck, playerReady, directListener, logs>>

\* the calls the AirPlay manager's listeners make for a native event
AirPlayDispatch(event) ==
   IF event \in airPlayListeners THEN <<"player.trigger " \o AirPlayEventOf(event)>> ELSE << >>

\* the browser fires connect, connecting or disconnect on the RemotePlayback
\* object: both managers' listeners run, in the order they were registered
RecordedRemoteEvent(event) ==
   /\ Len(nativeLog) < MaxEvents
   /\ remoteState' = StateAfter(event)
   /\ nativeLog' = Append(nativeLog, event)
   /\ \E castFirst \in BOOLEAN :
         LET effects == IF castFirst
                           THEN Dispatch(event, setupEventListeners("remote"))
                                \o AirPlayDispatch(event)
                           ELSE AirPlayDispatch(event)
                                \o Dispatch(event, setupEventListeners("remote"))
         IN  /\ busLog' = busLog \o effects
             /\ chromecastButton' = chromecastButtonAfter(chromecastButton, effects)
             /\ airPlayClasses' = airPlayButtonAfter(airPlayClasses, effects)
             /\ castNotified' = IF chromecastButton.created
                                   THEN NotifiedAfter(castNotified, effects, "CHROMECAST")
                                ELSE castNotified
             /\ airPlayNotified' = IF button # "none"
                                      THEN NotifiedAfter(airPlayNotified, effects, "AIRPLAY")
                                   ELSE airPlayNotified
             /\ last' = Step("remoteEvent", <<event>>, "returned", NoError, effects)
   /\ returned' = "none"
   /\ UNCHANGED <<env, cast, airPlayEnv, lifecycle, widgets, watches, airPlayManager, calls, awaitingWatch,
                  watchCallbacks, webkitListeners, pluginCheck, controls>>

ErrNoAirPlayApi == <<"No AirPlay API available">>

\* a prompt() that prefers the Remote Playback object to the WebKit picker
airPlayPromptPrefersRemotePlayback(webkit, videoElement, rp) ==
   IF rp # "null" THEN "delegate"
   ELSE IF webkit
      THEN (IF videoElement = "null" THEN "notFound" ELSE "picker")
   ELSE "throw"

\* AirPlayManager.prompt(): the branch it takes
airPlayPrompt(webkit, videoElement, rp) ==
   IF webkit
      THEN (IF videoElement = "null" THEN "notFound" ELSE "picker")
   ELSE IF rp # "null" THEN "delegate"
   ELSE "throw"

\* the page, or the button's click handler, calls AirPlayManager.prompt();
\* a delegated call settles as the native prompt() does
AirPlayPromptCall ==
   /\ LET branch == airPlayPrompt(webkitAirPlaySupported, getAirPlayVideoElement,
                                 airPlayRemotePlayback)
      IN  last' = CASE branch = "picker" ->
                       Step("airPlayPrompt", << >>, "resolved", NoError,
                            <<"video.webkitShowPlaybackTargetPicker">>)
                    [] branch = "notFound" ->
                       Step("airPlayPrompt", << >>, "resolved", NoError, << >>)
                    [] branch = "delegate" ->
                       Step("airPlayPrompt", << >>, "delegated", NoError, <<"remote.prompt">>)
                    [] branch = "throw" ->
                       Step("airPlayPrompt", << >>, "rejected", ErrNoAirPlayApi, << >>)
   /\ returned' = "none"
   /\ UNCHANGED <<env, remoteState, cast, airPlayEnv, lifecycle, widgets, buttons, watches, airPlayManager, calls, awaitingWatch,
                  watchCallbacks, webkitListeners, pluginCheck, controls, logs>>

NextPlayer ==
   \/ IsAirPlayAvailableCall
   \/ AirPlayPromptCall
   \/ WatchSettled
   \/ PluginWatchSettled
   \/ PluginCheckEmits
   \/ PlayerReady
   \/ \E a \in {"available", "unavailable"} : NativeAvailabilityChange(a)

\* the availability check, the button and the page's calls
SpecPlayer == InitPlayer /\ [][NextPlayer]_vars

----------------------------------------------------------------------------
(* The availability watches of the two managers *)

\* isChromecastAvailable() up to its await: "watch" calls watchAvailability()
isChromecastAvailable(support, rp, setup) ==
   IF ~support THEN "false"
   ELSE IF rp # "null" /\ setup THEN "watch"
   ELSE "false"

\* a continuation that answers true whatever the watch did
isChromecastAvailableAfterWatchOptimistic(resolved) == "true"

\* isChromecastAvailable() after watchAvailability() has settled
isChromecastAvailableAfterWatch(resolved) == IF resolved THEN "true" ELSE "false"

\* the page calls isChromecastAvailable()
IsChromecastAvailableCall ==
   /\ castCalls < MaxCalls
   /\ castCalls' = castCalls + 1
   /\ LET r == isChromecastAvailable(checkClientChromecastSupport, remotePlayback, isSetup)
      IN  /\ castAwaitingWatch' = IF r = "watch" THEN castAwaitingWatch + 1
                                  ELSE castAwaitingWatch
          /\ returned' = IF r = "watch" THEN "none" ELSE r
          /\ last' = Step("isChromecastAvailable", << >>,
                          IF r = "watch" THEN "pending" ELSE "resolved", NoError, CallsOf(r))
   /\ UNCHANGED <<env, remoteState, cast, airPlayEnv, lifecycle, widgets, buttons, castWatchCallbacks, reportLog,
                  airPlayManager, calls, awaitingWatch, watchCallbacks, webkitListeners,
                  pluginCheck, controls, logs>>

\* watchAvailability() settles for a call of isChromecastAvailable()
CastWatchSettled ==
   /\ castAwaitingWatch > 0
   /\ castAwaitingWatch' = castAwaitingWatch - 1
   /\ castWatchCallbacks' = IF watchResolves THEN castWatchCallbacks + 1
                            ELSE castWatchCallbacks
   /\ returned' = isChromecastAvailableAfterWatch(watchResolves)
   /\ last' = Step("castWatchSettled", << >>, "resolved", NoError, << >>)
   /\ UNCHANGED <<env, remoteState, cast, airPlayEnv, lifecycle, widgets, buttons, castCalls, reportLog,
                  airPlayManager, calls, awaitingWatch, watchCallbacks, webkitListeners,
                  pluginCheck, controls, logs>>

\* a callback that reports availability whatever the browser said
watchCallbackIgnoringValue(who, available) ==
   "player.trigger " \o who \o ".AVAILABILITY_CHANGE available=true"

\* the callback handed to watchAvailability(): the event it triggers
watchCallback(who, available) ==
   "player.trigger " \o who \o ".AVAILABILITY_CHANGE available="
      \o (IF available THEN "true" ELSE "false")

\* the browser invokes a watch callback of the Chromecast manager: the event
\* it triggers reaches every retry listener on the bus
CastWatchCallback(available) ==
   LET each    == <<"handleAvailabilityChange">> \o handleAvailabilityChange(available)
       effects == <<watchCallback("CHROMECAST", available)>> \o Repeat(each, busListeners)
   IN  /\ castWatchCallbacks > 0
       /\ Len(reportLog) < MaxEvents
       /\ retryPending + busListeners <= MaxPending
       /\ reportLog' = Append(reportLog, [who |-> "CHROMECAST", available |-> available])
       /\ busLog' = Append(busLog, watchCallback("CHROMECAST", available))
       /\ isAwaitingDeviceAvailability' = GuardAfter(isAwaitingDeviceAvailability, effects)
       /\ busListeners' = busListeners - Count(effects, "player.off")
       /\ retryPending' = retryPending + Count(effects, "remote.prompt")
       /\ returned' = "none"
       /\ last' = Step("castWatchCallback",
                       <<"available", IF available THEN "true" ELSE "false">>,
                       "returned", NoError, effects)
       /\ UNCHANGED <<env, video, remoteState, remoteListeners, remotePlayback,
                      eventListeners, isSetup, disposed, inflight, playPending,
                      airPlayEnv, lifecycle, widgets, buttons, castCalls, castAwaitingWatch, castWatchCallbacks,
                      airPlayManager, calls, awaitingWatch, watchCallbacks, webkitListeners,
                      pluginCheck, controls, nativeLog>>

\* the browser invokes a watch callback of the AirPlay manager
AirPlayWatchCallback(available) ==
   /\ watchCallbacks > 0
   /\ Len(reportLog) < MaxEvents
   /\ reportLog' = Append(reportLog, [who |-> "AIRPLAY", available |-> available])
   /\ busLog' = Append(busLog, watchCallback("AIRPLAY", available))
   /\ returned' = "none"
   /\ last' = Step("airPlayWatchCallback",
                   <<"available", IF available THEN "true" ELSE "false">>,
                   "returned", NoError, <<watchCallback("AIRPLAY", available)>>)
   /\ UNCHANGED <<env, remoteState, cast, airPlayEnv, lifecycle, widgets, buttons, castCalls, castAwaitingWatch,
                  castWatchCallbacks, airPlayManager, calls, awaitingWatch, watchCallbacks,
                  webkitListeners, pluginCheck, controls, nativeLog>>

\* the browser reports an availability change of the RemotePlayback object: it
\* invokes every callback it holds, the Chromecast manager's before the AirPlay
\* manager's; the first Chromecast event runs the retry listeners on the bus
NativeReport(available) ==
   LET each    == <<"handleAvailabilityChange">> \o handleAvailabilityChange(available)
       ofCast  == IF castWatchCallbacks = 0 THEN << >>
                  ELSE <<watchCallback("CHROMECAST", available)>>
                       \o Repeat(each, busListeners)
                       \o Repeat(<<watchCallback("CHROMECAST", available)>>,
                                 castWatchCallbacks - 1)
       effects == ofCast \o Repeat(<<watchCallback("AIRPLAY", available)>>, watchCallbacks)
   IN  /\ hasRemoteApi
       /\ retryPending + busListeners <= MaxPending
       /\ isAwaitingDeviceAvailability' = GuardAfter(isAwaitingDeviceAvailability, effects)
       /\ busListeners' = busListeners - Count(effects, "player.off")
       /\ retryPending' = retryPending + Count(effects, "remote.prompt")
       /\ returned' = "none"
       /\ last' = Step("nativeReport", <<"available", IF available THEN "true" ELSE "false">>,
                       "returned", NoError, effects)
       /\ UNCHANGED <<env, video, remoteState, remoteListeners, remotePlayback,
                      eventListeners, isSetup, disposed, inflight, playPending,
                      airPlayEnv, lifecycle, widgets, buttons, watches, airPlayManager, calls,
                      awaitingWatch, watchCallbacks, webkitListeners, pluginCheck, controls,
                      logs>>

\* the browser fires webkitplaybacktargetavailabilitychanged on the media element:
\* every listener that _checkWebKitAirPlayAvailability registered runs
WebKitAvailabilityChanged(available) ==
   LET effects == Repeat(<<watchCallback("AIRPLAY", available)>>, webkitListeners)
   IN  /\ hasAvailabilityEvent
       /\ returned' = "none"
       /\ last' = Step("webkitAvailabilityChanged",
                       <<"available", IF available THEN "true" ELSE "false">>,
                       "returned", NoError, effects)
       /\ UNCHANGED <<env, remoteState, cast, airPlayEnv, lifecycle, widgets, buttons, watches,
                      airPlayManager, calls, awaitingWatch, watchCallbacks, webkitListeners,
                      pluginCheck, controls, logs>>

\* onPlaybackTargetChange of _setupWebKitEventListeners
onPlaybackTargetChange(webkitCurrentPlaybackTargetIsWireless) ==
   IF webkitCurrentPlaybackTargetIsWireless
      THEN <<"player.trigger AIRPLAY.CONNECTED">>
   ELSE <<"player.trigger AIRPLAY.DISCONNECTED">>

\* the browser fires webkitcurrentplaybacktargetiswirelesschanged on the media
\* element; the AirPlay manager listens when it found WebKit AirPlay support
WirelessTargetChanged(webkitCurrentPlaybackTargetIsWireless) ==
   LET effects == IF webkitAirPlaySupported
                     THEN onPlaybackTargetChange(webkitCurrentPlaybackTargetIsWireless)
                  ELSE << >>
   IN  /\ hasWirelessProp
       /\ airPlayClasses' = airPlayButtonAfter(airPlayClasses, effects)
       /\ airPlayNotified' = IF button # "none"
                                THEN NotifiedAfter(airPlayNotified, effects, "AIRPLAY")
                             ELSE airPlayNotified
       /\ returned' = "none"
       /\ last' = Step("wirelessTargetChanged",
                       <<IF webkitCurrentPlaybackTargetIsWireless THEN "true" ELSE "false">>,
                       "returned", NoError, effects)
       /\ UNCHANGED <<env, remoteState, cast, airPlayEnv, lifecycle, widgets, chromecastButton,
                      castNotified, watches, airPlayManager, calls, awaitingWatch,
                      watchCallbacks, webkitListeners, pluginCheck, controls, logs>>

\* RemotePlaybackPlugin.dispose(): video.js forgets the plugin; the AirPlay
\* manager has no dispose() and is left as it was
PluginDispose ==
   /\ ~pluginDisposed
   /\ pluginDisposed' = TRUE
   /\ returned' = "none"
   /\ last' = Step("pluginDispose", << >>, "returned", NoError, << >>)
   /\ UNCHANGED <<env, remoteState, cast, airPlayEnv, widgets, buttons, watches, airPlayManager,
                  calls, awaitingWatch, watchCallbacks, webkitListeners, pluginCheck,
                  controls, logs>>

NextReports ==
   \/ IsChromecastAvailableCall
   \/ CastWatchSettled
   \/ IsAirPlayAvailableCall
   \/ WatchSettled
   \/ PluginWatchSettled
   \/ \E a \in BOOLEAN : NativeReport(a)
   \/ \E a \in BOOLEAN : WebKitAvailabilityChanged(a)

\* the availability checks of both managers and the browser's reports, each
\* delivered to every watcher
SpecReports == InitPlayer /\ [][NextReports]_vars

NextDisposal ==
   \/ PluginDispose
   \/ PluginWatchSettled
   \/ PlayerReady
   \/ \E e \in RemoteEvents : RecordedRemoteEvent(e)
   \/ \E w \in BOOLEAN : WirelessTargetChanged(w)
   \/ \E a \in BOOLEAN : WebKitAvailabilityChanged(a)

\* the plugin's disposal and the native events that follow it
SpecDisposal == InitPlayer /\ [][NextDisposal]_vars

NextWatch ==
   \/ IsChromecastAvailableCall
   \/ CastWatchSettled
   \/ \E a \in BOOLEAN : CastWatchCallback(a)
   \/ IsAirPlayAvailableCall
   \/ WatchSettled
   \/ PluginWatchSettled
   \/ \E a \in BOOLEAN : AirPlayWatchCallback(a)
   \/ Dispose

\* the availability checks of both managers and the browser's reports
SpecWatch == InitPlayer /\ [][NextWatch]_vars

NextControlBar ==
   \/ PlayerReady
   \/ PluginWatchSettled
   \/ PluginCheckEmits

SpecControlBar == InitControlBar /\ [][NextControlBar]_vars

NextButtons ==
   \/ \E o \in BOOLEAN : ChromecastButtonCreated(o)
   \/ PlayerReady
   \/ PluginWatchSettled
   \/ PluginCheckEmits
   \/ \E a \in {"available", "unavailable"} : NativeAvailabilityChange(a)
   \/ \E e \in RemoteEvents : RecordedRemoteEvent(e)

\* a player that wraps a video element and has a control bar for the buttons
InitButtons ==
   /\ InitPlayer
   /\ hasControlBar
   /\ playerEl = [self |-> "div", child |-> "video"]

\* the two buttons of a player and the notifications that reach them
SpecButtons == InitButtons /\ [][NextButtons]_vars

NextConnection ==
   \/ \E o \in BOOLEAN : ChromecastButtonCreated(o)
   \/ PlayerReady
   \/ \E e \in RemoteEvents : RecordedRemoteEvent(e)

\* the two buttons of a player and the connection events that reach them
SpecConnection == InitButtons /\ [][NextConnection]_vars

\* a page that has the Chromecast manager alone, in a browser without AirPlay,
\* where watchAvailability() may resolve or reject
InitRetry ==
   /\ InitPlayer
   /\ ~hasPickerMethod
   /\ ~hasAvailabilityEvent
   /\ ~hasWirelessProp
   /\ ~hasControlBar

\* prompt() is called while the browser has reports left for the attempt to come
PromptCallWithReportsLeft ==
   /\ Len(reportLog) + inflight + (IF busListeners > 0 THEN 1 ELSE 0) < MaxEvents
   /\ PromptCall

\* the browser reports availability to the watchers while a retry listener waits
ReportToWatchers(available) ==
   /\ busListeners > 0
   /\ CastWatchCallback(available)

NextRetry ==
   \/ PromptCallWithReportsLeft
   \/ PromptResolved
   \/ \E m \in NativeErrors : PromptRejected(m)
   \/ IsChromecastAvailableCall
   \/ CastWatchSettled
   \/ \E a \in BOOLEAN : ReportToWatchers(a)
   \/ \E ok \in BOOLEAN : RetrySettled(ok)
   \/ PlayResolved
   \/ PlayRejected
   \/ Dispose

\* every native call settles and the browser reports to registered watchers
FairRetry ==
   /\ WF_vars(PromptResolved \/ \E m \in NativeErrors : PromptRejected(m))
   /\ WF_vars(PlayResolved \/ PlayRejected)
   /\ WF_vars(\E ok \in BOOLEAN : RetrySettled(ok))
   /\ WF_vars(CastWatchSettled)
   /\ WF_vars(\E a \in BOOLEAN : ReportToWatchers(a))

\* the retry path with the availability check, under fair scheduling
SpecRetry == InitRetry /\ [][NextRetry]_vars /\ FairRetry

NextEvents ==
   \/ \E e \in RemoteEvents : RecordedRemoteEvent(e)
   \/ Dispose

\* the native connection events reaching the managers of a player
SpecEvents == InitPlayer /\ [][NextEvents]_vars

----------------------------------------------------------------------------
(* Properties of the pending cast attempt *)

\* the listeners an availability-change step reached
Reached == Count(last.effects, "handleAvailabilityChange")

\* C1: in every reachable state the guard is accompanied by at most one retry
\* listener of the manager on the player's bus
C1_AtMostOnePendingAttempt ==
   isAwaitingDeviceAvailability => busListeners <= 1

\* C2: a prompt() call made while the guard is set resolves without error and
\* calls neither the native prompt nor play()
C2_GuardedPromptIsNoOp ==
   (last.op = "prompt" /\ isAwaitingDeviceAvailability) =>
      /\ last.outcome = "resolved"
      /\ last.err = NoError
      /\ last.effects = << >>

\* a prompt() call was made while an attempt was pending, its listener
\* registered and its play() started
C2_Witness ==
   /\ last.op = "prompt"
   /\ isAwaitingDeviceAvailability
   /\ busListeners = 1
   /\ playPending = 1

\* C3: the manager never has two native prompts outstanding at the same time
C3_NoOverlappingPrompts ==
   inflight + retryPending <= 1

\* C4: a native rejection that is neither device-not-found nor
\* permission-denied, with the media not playing and the remote state not
\* connected, sets the guard, registers one listener, then calls play() once,
\* and prompt() resolves
C4_RetryPathEntered ==
   ( /\ last.op = "promptRejected"
     /\ ~Includes(last.arg, <<"No", "remote", "playback", "devices", "found">>)
     /\ ~Includes(last.arg, <<"NotAllowedError">>)
     /\ ~Includes(last.arg, <<"not", "allowed">>)
     /\ ~( /\ video.currentTime > 0
           /\ ~video.paused
           /\ ~video.ended
           /\ video.readyState > 2 )
     /\ remoteState # "connected" ) =>
      /\ last.effects = <<"guard=true", "player.on", "video.play">>
      /\ last.outcome = "resolved"
      /\ last.err = NoError
      /\ isAwaitingDeviceAvailability
      /\ busListeners >= 1
      /\ playPending >= 1

\* the retry path was entered for media that had started but is paused
C4_Witness ==
   /\ last.op = "promptRejected"
   /\ last.arg = <<"Media", "not", "ready">>
   /\ last.effects = <<"guard=true", "player.on", "video.play">>
   /\ video.currentTime > 0
   /\ video.paused
   /\ video.readyState > 2
   /\ remoteState = "connecting"

C6_PayloadIsIgnored ==
   \A payload \in {"true", "false"} :
      (last.op = "availabilitychange" /\ last.arg = <<"available", payload>>) =>
         /\ Count(last.effects, "guard=false") = Reached
         /\ Count(last.effects, "remote.prompt") =
               (IF remotePlayback # "null" THEN Reached ELSE 0)
         /\ Reached > 0 => ~isAwaitingDeviceAvailability

\* an event carrying available = false re-issued the native prompt
C6_Witness ==
   /\ last.op = "availabilitychange"
   /\ last.arg = <<"available", "false">>
   /\ Count(last.effects, "remote.prompt") = 1
   /\ ~isAwaitingDeviceAvailability

C8_CleanAfterPlayFailure ==
   last.op = "playRejected" =>
      /\ ~isAwaitingDeviceAvailability
      /\ busListeners = 0

\* C9: once dispose() has returned the guard is false and no retry listener of
\* the manager is registered on the player's bus
C9_DisposeDestroysAttempt ==
   disposed =>
      /\ ~isAwaitingDeviceAvailability
      /\ busListeners = 0

\* C10: after dispose() no connect, connecting or disconnect listener of the
\* manager is left on the RemotePlayback object, a native event triggers
\* nothing on the bus, and the references are reset
C10_DisposeUnregisters ==
   disposed =>
      /\ remoteListeners = {}
      /\ last.op = "remoteEvent" => last.effects = << >>
      /\ remotePlayback = "null"
      /\ ~isSetup
      /\ eventListeners = << >>

\* a manager that had set up its listeners was disposed, and the browser then
\* reported a connection
C10_Witness ==
   /\ disposed
   /\ getVideoElement # "null"
   /\ checkClientChromecastSupport
   /\ last.op = "remoteEvent"
   /\ last.arg = <<"connect">>
   /\ remoteState = "connected"

----------------------------------------------------------------------------
(* Properties of the outcomes of prompt() *)

\* C11: on a manager that never completed setup every prompt() rejects with
\* the configuration error, the guard stays false, no listener is registered
\* and neither the native prompt nor play() is ever called
C11_NotSetUpFailsFast ==
   (getVideoElement = "null" \/ ~isChromeBrowser) =>
      /\ ~isAwaitingDeviceAvailability
      /\ busListeners = 0
      /\ inflight = 0
      /\ playPending = 0
      /\ retryPending = 0
      /\ last.op = "prompt" =>
            /\ last.outcome = "rejected"
            /\ last.err = ErrInitFailed
            /\ last.effects = << >>

\* prompt() was called on a manager built in a browser that is not Chrome
C11_Witness ==
   /\ getVideoElement # "null"
   /\ ~isChromeBrowser
   /\ ~disposed
   /\ last.op = "prompt"
   /\ last.outcome = "rejected"

\* C12: on a manager built with no discoverable video element prompt() rejects
\* with 'ChromecastManager not properly initialized. Call setup first.'
C12_InitErrorNamesSetup ==
   (getVideoElement = "null" /\ last.op = "prompt") =>
      /\ last.outcome = "rejected"
      /\ last.err = <<"ChromecastManager not properly initialized. Call setup first.">>

\* C13: a native rejection whose message contains 'No remote playback devices
\* found' makes prompt() reject with the no-devices message, and the step
\* neither writes the guard nor registers a listener nor calls play()
C13_NoDevicesNotRetried ==
   ( /\ last.op = "promptRejected"
     /\ Includes(last.arg, <<"No", "remote", "playback", "devices", "found">>) ) =>
      /\ last.outcome = "rejected"
      /\ last.err = <<"No Chromecast devices found. Make sure your Chromecast is on the same network and try again.">>
      /\ last.effects = << >>

\* the no-devices rejection arrived while the media was not playing
C13_Witness ==
   /\ last.op = "promptRejected"
   /\ last.arg = <<"No", "remote", "playback", "devices", "found">>
   /\ last.outcome = "rejected"
   /\ ~isPlaying
   /\ remoteState # "connected"
   /\ ~isAwaitingDeviceAvailability
   /\ busListeners = 0

\* C14, as claimed: a native rejection whose message contains
\* 'NotAllowedError' makes prompt() reject with the permission message, with
\* no write to the guard, no listener and no play()
C14_NotAllowedIsPermissionDenied ==
   ( /\ last.op = "promptRejected"
     /\ Includes(last.arg, <<"NotAllowedError">>) ) =>
      /\ last.outcome = "rejected"
      /\ last.err = <<"Chromecast permission denied. Please try clicking the button again.">>
      /\ last.effects = << >>

\* C14, amended: the same for a message that contains 'NotAllowedError' and
\* does not contain 'No remote playback devices found'
C14_NotAllowedWithoutNoDevices ==
   ( /\ last.op = "promptRejected"
     /\ Includes(last.arg, <<"NotAllowedError">>)
     /\ ~Includes(last.arg, <<"No", "remote", "playback", "devices", "found">>) ) =>
      /\ last.outcome = "rejected"
      /\ last.err = <<"Chromecast permission denied. Please try clicking the button again.">>
      /\ last.effects = << >>

\* the permission rejection arrived while the media was not playing
C14_Witness ==
   /\ last.op = "promptRejected"
   /\ last.arg = <<"NotAllowedError", ":", "User", "denied", "permission">>
   /\ last.outcome = "rejected"
   /\ ~isPlaying
   /\ remoteState # "connected"
   /\ ~isAwaitingDeviceAvailability
   /\ busListeners = 0

C16_PromptSucceeds ==
   /\ (last.op = "prompt" /\ isSetup /\ ~isAwaitingDeviceAvailability) =>
         /\ last.outcome = "pending"
         /\ last.effects = <<"remote.prompt">>
   /\ last.op = "promptResolved" =>
         /\ last.outcome = "resolved"
         /\ last.err = NoError
         /\ last.effects = << >>

\* the native prompt of the only call resolved and left nothing behind
C16_Witness ==
   /\ last.op = "promptResolved"
   /\ isSetup
   /\ inflight = 0
   /\ ~isAwaitingDeviceAvailability
   /\ busListeners = 0
   /\ playPending = 0
   /\ retryPending = 0

----------------------------------------------------------------------------
(* Properties of the state accessors and of the re-emitted events *)

\* C17: a manager that holds a RemotePlayback object reports that object's
\* state, the one the last native event left, and is connected exactly when it
\* is 'connected'; a manager without the object reports null and not
\* connected; for ChromecastManager, AirPlayManager and the plugin alike
C17_AccessorsMirrorRemoteState ==
   LET current == IF nativeLog = << >> THEN "disconnected"
                  ELSE StateAfter(nativeLog[Len(nativeLog)])
   IN  /\ remotePlayback # "null" =>
             /\ getState = current
             /\ isConnected <=> (current = "connected")
       /\ remotePlayback = "null" => (getState = "null" /\ ~isConnected)
       /\ airPlayRemotePlayback # "null" =>
             /\ airPlayGetState = current
             /\ airPlayIsConnected <=> (current = "connected")
             /\ pluginGetState = current
             /\ pluginIsConnected <=> (current = "connected")
       /\ airPlayRemotePlayback = "null" =>
             /\ airPlayGetState = "null" /\ ~airPlayIsConnected
             /\ pluginGetState = "null" /\ ~pluginIsConnected

\* both managers hold the object, which went to connected and on to connecting
C17_Witness ==
   /\ remotePlayback # "null"
   /\ airPlayRemotePlayback # "null"
   /\ Len(nativeLog) >= 2
   /\ nativeLog[Len(nativeLog) - 1] = "connect"
   /\ nativeLog[Len(nativeLog)] = "connecting"

\* C18: while the manager is set up and not disposed, the Chromecast events on
\* the player's bus are the native events of the RemotePlayback object, one
\* for one and in the same order
C18_BusFollowsNativeEvents ==
   LET IsCastEvent(e) == e \in { "player.trigger CHROMECAST.CONNECTED",
                                 "player.trigger CHROMECAST.CONNECTING",
                                 "player.trigger CHROMECAST.DISCONNECTED" }
       Matching(event) ==
          CASE event = "connect"    -> "player.trigger CHROMECAST.CONNECTED"
            [] event = "connecting" -> "player.trigger CHROMECAST.CONNECTING"
            [] event = "disconnect" -> "player.trigger CHROMECAST.DISCONNECTED"
   IN  (isSetup /\ ~disposed) =>
          SelectSeq(busLog, IsCastEvent)
             = [i \in 1..Len(nativeLog) |-> Matching(nativeLog[i])]

\* a set-up manager saw the same event twice and then another one
C18_Witness ==
   /\ isSetup
   /\ ~disposed
   /\ Len(nativeLog) = 3
   /\ nativeLog[1] = "connecting"
   /\ nativeLog[2] = "connecting"
   /\ nativeLog[3] = "connect"

----------------------------------------------------------------------------
(* Properties of the AirPlay availability check *)

\* the steps in which an isAirPlayAvailable() call resolves
AvailabilityResolved ==
   /\ last.op \in {"isAirPlayAvailable", "watchSettled", "pluginWatchSettled"}
   /\ last.outcome = "resolved"

\* C19: in a browser with neither AirPlay API every isAirPlayAvailable() call,
\* the plugin's own included, resolves false without awaiting anything, and
\* the AirPlay button is never visible
C19_NoAirPlayApiStaysHidden ==
   (~hasPickerMethod /\ ~hasAvailabilityEvent) =>
      /\ button # "shown"
      /\ pluginCheck \in {"false", "emittedUnavailable"}
      /\ awaitingWatch = 0
      /\ last.op = "isAirPlayAvailable" => (last.outcome = "resolved" /\ returned = "false")

\* a browser with the Remote Playback API alone: the button was created and
\* the page asked for availability
C19_Witness ==
   /\ ~hasPickerMethod
   /\ ~hasAvailabilityEvent
   /\ hasRemoteApi
   /\ playerEl.child = "video"
   /\ button = "hidden"
   /\ pluginCheck = "emittedUnavailable"
   /\ last.op = "isAirPlayAvailable"

\* C20, as claimed: where the media element has a RemotePlayback object whose
\* watchAvailability resolves, every isAirPlayAvailable() call resolves true
C20_WatchResolvesMeansAvailable ==
   (watchResolves /\ hasRemoteApi /\ "video" \in {playerEl.self, playerEl.child}) =>
      (AvailabilityResolved => returned = "true")

\* C20, amended: where the AirPlay manager holds the RemotePlayback object and
\* watchAvailability resolves, every isAirPlayAvailable() call awaits the
\* watch and resolves true
C20_HeldWatchResolvesMeansAvailable ==
   (watchResolves /\ airPlayRemotePlayback # "null") =>
      /\ last.op = "isAirPlayAvailable" =>
            (last.outcome = "pending" /\ last.effects = <<"remote.watchAvailability">>)
      /\ AvailabilityResolved => returned = "true"
      /\ pluginCheck \notin {"false", "emittedUnavailable"}

\* a call of the page got true from a resolved watch
C20_Witness ==
   /\ watchResolves
   /\ airPlayRemotePlayback # "null"
   /\ last.op = "watchSettled"
   /\ returned = "true"
   /\ watchCallbacks > 0

\* C21: no isAirPlayAvailable() call ends in a rejection, and a call whose
\* watchAvailability() rejected registers the WebKit availability listener
\* and resolves true when the WebKit APIs are present
C21_WatchFailureFallsBack ==
   /\ last.op \in {"isAirPlayAvailable", "watchSettled", "pluginWatchSettled"} =>
         /\ last.outcome \in {"pending", "resolved"}
         /\ last.err = NoError
   /\ ( /\ last.op \in {"watchSettled", "pluginWatchSettled"}
        /\ ~watchResolves
        /\ (hasPickerMethod \/ hasAvailabilityEvent) ) =>
         /\ last.outcome = "resolved"
         /\ returned = "true"
         /\ last.effects = <<"video.addEventListener webkitplaybacktargetavailabilitychanged">>
         /\ webkitListeners > 0

\* the watch of a call of the page was rejected and the call resolved true
C21_Witness ==
   /\ ~watchResolves
   /\ last.op = "watchSettled"
   /\ returned = "true"
   /\ webkitListeners > 0
   /\ watchCallbacks = 0

----------------------------------------------------------------------------
(* Properties of the plugin *)

\* C25: the plugin's one availability check puts at most one plugin-level
\* event on the player's bus: none before the check has settled, then
\* remoteplayback:available for the result true or remoteplayback:unavailable
\* for the result false, and never a second one
C25_OneAvailabilityEvent ==
   LET IsPluginEvent(e) == e \in { "player.trigger REMOTE_PLAYBACK.AVAILABLE",
                                   "player.trigger REMOTE_PLAYBACK.UNAVAILABLE" }
       emitted == SelectSeq(busLog, IsPluginEvent)
   IN  /\ pluginCheck \in {"awaitingWatch", "true", "false"} => emitted = << >>
       /\ pluginCheck = "emittedAvailable" =>
             emitted = <<"player.trigger REMOTE_PLAYBACK.AVAILABLE">>
       /\ pluginCheck = "emittedUnavailable" =>
             emitted = <<"player.trigger REMOTE_PLAYBACK.UNAVAILABLE">>
       /\ pluginCheck \in {"awaitingWatch", "true", "false",
                           "emittedAvailable", "emittedUnavailable"}
       /\ last.op = "checkAvailability" => Len(last.effects) = 1

\* the check gave false, the event went out, and the page went on calling
\* the manager
C25_Witness ==
   /\ pluginCheck = "emittedUnavailable"
   /\ busLog = <<"player.trigger REMOTE_PLAYBACK.UNAVAILABLE">>
   /\ last.op = "isAirPlayAvailable"
   /\ calls = MaxCalls

----------------------------------------------------------------------------
(* Properties of AirPlayManager.prompt() *)

----------------------------------------------------------------------------
(* Properties of the availability watches *)

\* C22: no isChromecastAvailable() call ends in a rejection or touches the
\* WebKit listener; a call in a browser that is not Chrome, without the Remote
\* Playback API or on a manager that is not set up resolves false at once;
\* any other call awaits watchAvailability() and resolves true when that
\* resolves and false when it rejects
C22_ChromecastAvailability ==
   /\ last.op \in {"isChromecastAvailable", "castWatchSettled"} =>
         /\ last.outcome \in {"pending", "resolved"}
         /\ last.err = NoError
         /\ Count(last.effects,
                  "video.addEventListener webkitplaybacktargetavailabilitychanged") = 0
   /\ ( /\ last.op = "isChromecastAvailable"
        /\ (~isChromeBrowser \/ ~hasRemoteApi \/ ~isSetup) ) =>
         /\ last.outcome = "resolved"
         /\ returned = "false"
         /\ last.effects = << >>
   /\ ( /\ last.op = "isChromecastAvailable"
        /\ isChromeBrowser /\ hasRemoteApi /\ isSetup ) =>
         /\ last.outcome = "pending"
         /\ last.effects = <<"remote.watchAvailability">>
   /\ last.op = "castWatchSettled" =>
         /\ last.outcome = "resolved"
         /\ returned = (IF watchResolves THEN "true" ELSE "false")

\* in Chrome a call went to the watch, the watch was rejected and the call
\* resolved false with no callback left behind
C22_Witness ==
   /\ isChromeBrowser
   /\ hasRemoteApi
   /\ ~watchResolves
   /\ last.op = "castWatchSettled"
   /\ returned = "false"
   /\ castWatchCallbacks = 0

\* C23: for each manager, the availability-change events on the player's bus
\* are the invocations of its watch callbacks, one event per invocation, with
\* the invocation's value as payload and in the order of the invocations
C23_CallbacksReachTheBus ==
   LET Of(who) ==
          LET IsReport(r) == r.who = who
              reports == SelectSeq(reportLog, IsReport)
          IN  [i \in 1..Len(reports) |->
                 "player.trigger " \o who \o ".AVAILABILITY_CHANGE available="
                    \o (IF reports[i].available THEN "true" ELSE "false")]
       IsChange(who, e) ==
          e \in { "player.trigger " \o who \o ".AVAILABILITY_CHANGE available=true",
                  "player.trigger " \o who \o ".AVAILABILITY_CHANGE available=false" }
       IsCastChange(e) == IsChange("CHROMECAST", e)
       IsAirPlayChange(e) == IsChange("AIRPLAY", e)
   IN  /\ SelectSeq(busLog, IsCastChange) = Of("CHROMECAST")
       /\ SelectSeq(busLog, IsAirPlayChange) = Of("AIRPLAY")
       /\ (reportLog # << >>) => (castWatchCallbacks > 0 \/ watchCallbacks > 0)

\* the browser reported true, false and true again to the Chromecast
\* manager's callback
C23_Witness ==
   /\ Len(reportLog) = 3
   /\ reportLog[1] = [who |-> "CHROMECAST", available |-> TRUE]
   /\ reportLog[2] = [who |-> "CHROMECAST", available |-> FALSE]
   /\ reportLog[3] = [who |-> "CHROMECAST", available |-> TRUE]

\* C26: when the player becomes ready and has a control bar, the button takes the
\* index the fullscreen toggle occupied, so that it comes immediately before the
\* toggle, and the children the bar already had keep their order; with no fullscreen
\* toggle in the bar the button becomes the last child
C26_ButtonPrecedesFullscreenToggle ==
   [][(~playerReady /\ playerReady' /\ hasControlBar) =>
         LET toggle == COMPONENT_NAMES.FULLSCREEN_TOGGLE
             added  == COMPONENT_NAMES.AIRPLAY_BUTTON
             others == SelectSeq(children', LAMBDA c : c # added)
         IN  /\ Len(children') = Len(children) + 1
             /\ others = children
             /\ IF \E i \in DOMAIN children : children[i] = toggle
                THEN \E i \in DOMAIN children :
                        /\ children[i] = toggle
                        /\ children'[i] = added
                        /\ children'[i + 1] = toggle
                ELSE children'[Len(children')] = added]_vars

\* the button was put between two children, right before a fullscreen toggle that
\* was not the last child
C26_Witness ==
   /\ playerReady
   /\ hasControlBar
   /\ children = <<"playToggle", COMPONENT_NAMES.AIRPLAY_BUTTON,
                   COMPONENT_NAMES.FULLSCREEN_TOGGLE, "volumePanel">>

\* C27: once a button has received an availability notification (an available or
\* unavailable event on the bus, or a native availabilitychange), it is visible
\* exactly when the most recent one indicated availability
C27_VisibleAsLastNotified ==
   /\ (button # "none" /\ airPlayNotified.availability # "none") =>
         (button = "shown" <=> airPlayNotified.availability = "available")
   /\ (chromecastButton.created /\ castNotified.availability # "none") =>
         (CSS_CLASSES.HIDDEN \notin chromecastButton.className
             <=> castNotified.availability = "available")

\* C28: where the browser is not Chrome or has no Remote Playback API, a
\* Chromecast button is hidden in every reachable state
C28_HiddenWithoutChromecast ==
   (chromecastButton.created /\ ~checkClientChromecastSupport) =>
      CSS_CLASSES.HIDDEN \in chromecastButton.className

\* the classes of a button agree with the connection notification it received last
ReflectsConnection(className, connection, connecting, connected) ==
   /\ ~(connecting \in className /\ connected \in className)
   /\ connection = "connecting" => (connecting \in className /\ connected \notin className)
   /\ connection = "connected" => (connected \in className /\ connecting \notin className)
   /\ connection = "disconnected" => (connecting \notin className /\ connected \notin className)

\* C29: on both buttons the connecting and connected classes are never present
\* together and reflect the most recent connection notification: connecting alone
\* after connecting, connected alone after connected, neither after disconnected
C29_ClassesReflectConnection ==
   /\ chromecastButton.created =>
         ReflectsConnection(chromecastButton.className, castNotified.connection,
                            CSS_CLASSES.CHROMECAST_CONNECTING, CSS_CLASSES.CHROMECAST_CONNECTED)
   /\ button # "none" =>
         ReflectsConnection(airPlayClasses, airPlayNotified.connection,
                            CSS_CLASSES.AIRPLAY_CONNECTING, CSS_CLASSES.AIRPLAY_CONNECTED)

\* both buttons were told of a connection after being told it was under way
C29_Witness ==
   /\ nativeLog = <<"connecting", "connect">>
   /\ castNotified.connection = "connected"
   /\ airPlayNotified.connection = "connected"
   /\ CSS_CLASSES.CHROMECAST_CONNECTED \in chromecastButton.className
   /\ CSS_CLASSES.AIRPLAY_CONNECTED \in airPlayClasses

\* C30: with the label option on, the Chromecast button's label reads
\* 'Disconnect Cast' exactly when _isChromecastConnected is true and 'Cast' otherwise
C30_LabelAgreesWithFlag ==
   (chromecastButton.created /\ chromecastButton.addChromecastLabelToButton) =>
      chromecastButton.labelEl =
         (IF chromecastButton.isChromecastConnected THEN "Disconnect Cast" ELSE "Cast")

\* C31: whenever the guard _isAwaitingDeviceAvailability is set it is eventually
\* cleared, given that every native call settles and the browser reports to every
\* registered watcher, whether or not isChromecastAvailable() was called or succeeded
C31_GuardEventuallyCleared ==
   isAwaitingDeviceAvailability ~> ~isAwaitingDeviceAvailability

\* C32: once dispose() has returned the manager calls neither play() on the media
\* element nor the native prompt(), whatever settles or is delivered afterwards
C32_NoCallsAfterDispose ==
   disposed =>
      /\ Count(last.effects, "video.play") = 0
      /\ Count(last.effects, "remote.prompt") = 0

\* C33: after dispose() the manager triggers nothing on the player's bus: a watch
\* callback registered earlier by isChromecastAvailable() and invoked afterwards
\* produces no Chromecast availability-change event
C33_SilentAfterDispose ==
   disposed =>
      \A i \in DOMAIN last.effects :
         last.effects[i] \notin {watchCallback("CHROMECAST", a) : a \in BOOLEAN}

\* C34: one native availability report produces at most one availability-change
\* event per manager on the player's bus, however often isAirPlayAvailable() or
\* isChromecastAvailable() was called before
C34_OneEventPerReport ==
   last.op \in {"nativeReport", "webkitAvailabilityChanged"} =>
      \A who \in {"CHROMECAST", "AIRPLAY"} :
         \A a \in BOOLEAN : Count(last.effects, watchCallback(who, a)) <= 1

\* C38: after the plugin is disposed no native connect, connecting or disconnect
\* event and no WebKit wireless-target or availability event triggers an AirPlay
\* event on the player's bus
C38_AirPlaySilentAfterDispose ==
   (pluginDisposed /\ last.op \in {"remoteEvent", "wirelessTargetChanged",
                                   "webkitAvailabilityChanged"}) =>
      \A i \in DOMAIN last.effects :
         last.effects[i] \notin
            {"player.trigger " \o AirPlayEventOf(e) : e \in RemoteEvents}
               \cup {watchCallback("AIRPLAY", a) : a \in BOOLEAN}

\* C35: the retry terminates. A retry listener is registered only when a prompt()
\* call enters the retry path, and each one re-issues the native prompt at most
\* once; the settling of a re-issued prompt, rejections included, is returned to no
\* caller and leaves the guard, the listeners and play() alone; so the native
\* prompt is called only by prompt() or by a listener, and play() only by prompt()
C35_RetryTerminates ==
   [][LET entries  == Count(last'.effects, "player.on")
          reissued == Count(last'.effects, "remote.prompt")
      IN  /\ retryPending' + busListeners' <= retryPending + busListeners + entries
          /\ entries > 0 => last'.op = "promptRejected"
          /\ reissued > 0 => last'.op \in {"prompt", "availabilitychange"}
          /\ (last'.op = "availabilitychange") =>
                reissued = retryPending' - retryPending
          /\ Count(last'.effects, "video.play") > 0 => last'.op = "promptRejected"
          /\ last'.op = "retrySettled" =>
                /\ last'.outcome = "returned"
                /\ last'.err = NoError
                /\ last'.effects = << >>
                /\ retryPending' = retryPending - 1
                /\ UNCHANGED <<isAwaitingDeviceAvailability, busListeners, playPending,
                               inflight>>]_vars

\* the prompt a retry listener re-issued was rejected, and nothing is pending
C35_Witness ==
   /\ last.op = "retrySettled"
   /\ last.arg = <<"rejected">>
   /\ ~isAwaitingDeviceAvailability
   /\ inflight + busListeners + playPending + retryPending = 0

\* C36: in either order of the plugin's availability event and the ready callback
\* that creates the button, the step that completes the two leaves the button
\* visible exactly when the check resolved true
C36_ButtonReflectsInitialCheck ==
   ( /\ hasControlBar
     /\ playerReady
     /\ pluginCheck \in {"emittedAvailable", "emittedUnavailable"}
     /\ last.op \in {"ready", "checkAvailability"} ) =>
      (button = "shown" <=> pluginCheck = "emittedAvailable")

\* C37: a connecting, connected or disconnected notification leaves the Chromecast
\* button's visibility as it was: a hidden button stays hidden, a visible one
\* stays visible
C37_ConnectionKeepsVisibility ==
   [][(chromecastButton.created /\ last'.op = "remoteEvent") =>
         (CSS_CLASSES.HIDDEN \in chromecastButton'.className
             <=> CSS_CLASSES.HIDDEN \in chromecastButton.className)]_vars

====
